---- MODULE Spec2Model ----
(***************************************************************************)
(* A model of simulation.py: the simulation of peer connections in a       *)
(* BitTorrent swarm, with and without the global peer ordering.            *)
(*                                                                         *)
(* The per-peer tables of the script (dicts of lists) are functions from   *)
(* the peers that have an entry to sequences; lists keep their order and   *)
(* their repeated entries.  The main loop, step() and add_new_peer() are   *)
(* followed with a program counter: one action per resolved attempt, per   *)
(* ramp-up sample, per call of maybe_connect_more_peers, per join and per  *)
(* render.                                                                 *)
(***************************************************************************)
EXTENDS Integers, Sequences, FiniteSets, TLC

\* ------------------------------------------------------------- bounds
\* --swarm-size explored by Spec
MaxSwarm == 5
\* --max-peers ranges over 1..MaxMaxPeers
MaxMaxPeers == 2
\* --half-open-limit ranges over 1..MaxHalfOpen
MaxHalfOpen == 2
\* --peers-from-tracker ranges over 1..MaxTracker
MaxTracker == 2
\* the number of digest orders (seeds 0..NumHashOrders-1) explored
NumHashOrders == 100
\* peer ids 0..MaxId are handed to prio by PrioSpec
MaxId == 112
\* graph_diameter is handed every graph of 1..MaxNodes peers by DiameterSpec
MaxNodes == 5

\* ------------------------------------------------------------ lists
Range(seq) == {seq[i] : i \in DOMAIN seq}

\* x in list
Contains(seq, x) == \E i \in DOMAIN seq : seq[i] = x

\* list.pop(i), 1-based: the list without its i-th element
RemoveAt(seq, i) == SubSeq(seq, 1, i - 1) \o SubSeq(seq, i + 1, Len(seq))

\* the index of the first occurrence of x (x is in the list)
IndexOf(seq, x) == CHOOSE i \in DOMAIN seq : seq[i] = x /\ \A j \in 1..(i - 1) : seq[j] # x

\* list.remove(x) where x is known to be present: the first occurrence goes
Remove(seq, x) == RemoveAt(seq, IndexOf(seq, x))

\* try: list.remove(x) / except: pass
RemoveIfPresent(seq, x) == IF Contains(seq, x) THEN Remove(seq, x) ELSE seq

\* list(s) of a set of small ints: ascending
RECURSIVE SortedList(_)
SortedList(S) ==
    IF S = {} THEN <<>>
    ELSE LET m == CHOOSE x \in S : \A y \in S : x <= y
         IN  <<m>> \o SortedList(S \ {m})

\* every list of k distinct members of S: what shuffle followed by [0:k] can give
Prefixes(S, k) == {q \in [1..k -> S] : \A i, j \in 1..k : i # j => q[i] # q[j]}

Min2(a, b) == IF a < b THEN a ELSE b
Max2(a, b) == IF a > b THEN a ELSE b

\* --------------------------------------------------------- variables
VARIABLES
    settings,               \* the parsed command line
    tick,                   \* global tick counter
    peers_in_swarm,
    est_connections,        \* node -> [node, ...]
    connection_attempts,    \* node -> [node, ...]
    known_peers,            \* node -> [node, ...]
    retry_peers,            \* node -> [node, ...]
    attempts_per_tick,
    rejects_per_tick,
    replacements_per_tick,
    join_time,              \* node -> tick
    startup,                \* list of lists of degrees
    diameter,               \* graph diameter per tick
    sha1,                   \* the digest order: hashed string -> rank of its hexdigest
    pc,                     \* where the main loop stands
    cur,                    \* the peer n of the running for-loop of step()
    todo,                   \* what is left of list(connection_attempts[n])
    last,                   \* the branch the last resolved attempt took
    error,                  \* the exception that ended the run, or "none"
    prio_args,              \* PrioSpec: the arguments handed to prio
    prio_hashed             \* PrioSpec: the string prio hashed for them

vars == <<settings, tick, peers_in_swarm, est_connections, connection_attempts,
          known_peers, retry_peers, attempts_per_tick, rejects_per_tick,
          replacements_per_tick, join_time, startup, diameter, sha1, pc, cur,
          todo, last, error, prio_args, prio_hashed>>

swarmVars == <<settings, tick, peers_in_swarm, est_connections, connection_attempts,
               known_peers, retry_peers, attempts_per_tick, rejects_per_tick,
               replacements_per_tick, join_time, startup, diameter, sha1, pc, cur,
               todo, last, error>>

\* ------------------------------------------------------------- prio
\* '%d' % n
RECURSIVE Digits(_)
Digits(n) == IF n < 10 THEN <<n>> ELSE Append(Digits(n \div 10), n % 10)

\* the string prio hashes: the pair, smaller id first, as '%d%d'
PrioKey(n1, n2) == Digits(Min2(n1, n2)) \o Digits(Max2(n1, n2))

\* the global priority function of node pairs; hexdigests compare as their ranks
prio(n1, n2) == sha1[PrioKey(n1, n2)]

\* the pairs of a swarm of S peers, listed by their larger id
RECURSIVE PairList(_)
PairList(S) ==
    IF S < 2 THEN <<>>
    ELSE PairList(S - 1) \o [i \in 1..(S - 1) |-> <<i - 1, S - 1>>]

RECURSIVE Factorial(_)
Factorial(n) == IF n <= 1 THEN 1 ELSE n * Factorial(n - 1)

\* the permutation of 1..n whose Lehmer code is r, written in factorials: the
\* k-th item goes to the place the k-th digit of r names (12! is the last
\* factorial of the integers' range; later items go first)
RECURSIVE PermOf(_, _)
PermOf(r, n) ==
    IF n = 0 THEN <<>>
    ELSE LET p == PermOf(r, n - 1)
             d == IF n > 12 THEN 0 ELSE (r \div Factorial(n - 1)) % n
         IN  SubSeq(p, 1, d) \o <<n>> \o SubSeq(p, d + 1, Len(p))

\* a digest order over the pairs of S peers: SHA-1 is taken to be some injective
\* function of the hashed string, so its digests order the pairs in some total
\* order; the seeds are spread over the orders (720 seeds give every order of
\* the 6 pairs of 4 peers)
HashOrder(S, seed) ==
    LET pairs == PairList(S)
        perm  == PermOf(seed * 1000003, Len(pairs))
    IN  [k \in {PrioKey(pairs[i][1], pairs[i][2]) : i \in 1..Len(pairs)} |->
            perm[CHOOSE i \in 1..Len(pairs) : PrioKey(pairs[i][1], pairs[i][2]) = k]]

\* the first member of the list with the greatest prio(n, x): max(list, key=...)
FirstMax(seq, n) ==
    CHOOSE i \in DOMAIN seq :
        /\ \A j \in DOMAIN seq : prio(n, seq[j]) <= prio(n, seq[i])
        /\ \A j \in 1..(i - 1) : prio(n, seq[j]) < prio(n, seq[i])

\* the first member of the list with the least prio(n, x): min(list, key=...)
FirstMin(seq, n) ==
    CHOOSE i \in DOMAIN seq :
        /\ \A j \in DOMAIN seq : prio(n, seq[j]) >= prio(n, seq[i])
        /\ \A j \in 1..(i - 1) : prio(n, seq[j]) > prio(n, seq[i])

\* ------------------------------------------------ the swarm's tables
\* the tables the handlers read and write, as one value
Tables ==
    [est_connections |-> est_connections,
     connection_attempts |-> connection_attempts,
     known_peers |-> known_peers,
     retry_peers |-> retry_peers,
     attempts_per_tick |-> attempts_per_tick,
     rejects_per_tick |-> rejects_per_tick,
     replacements_per_tick |-> replacements_per_tick,
     error |-> error]

\* if not n in table: table[n] = []
Ensure(table, n) == IF n \in DOMAIN table THEN table ELSE table @@ (n :> <<>>)


\* ------------------------------------- maybe_connect_more_peers(n)
\* CanConnectMore without the half-open limit
CanConnectMore_NoHalfOpen(s, n) ==
    /\ Len(s.est_connections[n]) + Len(s.connection_attempts[n]) < settings.max_peers
    /\ Len(s.known_peers[n]) > 0

\* the while condition: room for one more attempt and somebody to dial
CanConnectMore(s, n) ==
    /\ Len(s.est_connections[n]) + Len(s.connection_attempts[n]) < settings.max_peers
    /\ Len(s.connection_attempts[n]) < settings.half_open_limit
    /\ Len(s.known_peers[n]) > 0

\* one turn of the while loop: known_peers[n][i] becomes an attempt
Dial(s, n, i) ==
    [s EXCEPT !.known_peers[n] = RemoveAt(@, i),
              !.connection_attempts[n] = Append(@, s.known_peers[n][i]),
              !.attempts_per_tick[tick + 1] = @ + 1]

\* the indices the loop may pick: the highest ranking known peer, or any
\* (random.randint) without peer ordering
Picks(s, n) ==
    IF settings.use_peer_ordering
    THEN {IndexOf(s.known_peers[n], s.known_peers[n][FirstMax(s.known_peers[n], n)])}
    ELSE DOMAIN s.known_peers[n]

\* the while loop: every table it can end with
RECURSIVE ConnectLoop(_, _)
ConnectLoop(s, n) ==
    IF CanConnectMore(s, n)
    THEN UNION {ConnectLoop(Dial(s, n, i), n) : i \in Picks(s, n)}
    ELSE {s}

\* retry_peers[n] becomes known_peers[n] once known_peers[n] is empty
SwapRetry(s, n) ==
    IF Len(s.known_peers[n]) = 0 /\ Len(s.retry_peers[n]) > 0
    THEN [s EXCEPT !.known_peers[n] = s.retry_peers[n], !.retry_peers[n] = <<>>]
    ELSE s

maybe_connect_more_peers(s, n) ==
    LET s0 == [s EXCEPT !.est_connections = Ensure(@, n),
                        !.connection_attempts = Ensure(@, n)]
        s1 == SwapRetry(s0, n)
    IN  IF Len(s1.est_connections[n]) + Len(s1.connection_attempts[n]) >= settings.max_peers
        THEN {s1}
        ELSE ConnectLoop(s1, n)

\* ---------------------------------------------------- add_new_peer(n)
\* Discover that tells everybody about the new peer, whatever the setting
Discover_TellAll(s, n, sample) ==
    [s EXCEPT !.known_peers =
        [p \in DOMAIN s.known_peers |->
            IF p \in peers_in_swarm THEN Append(s.known_peers[p], n)
            ELSE s.known_peers[p]]
        @@ (n :> IF settings.use_global_knowledge THEN SortedList(peers_in_swarm)
                 ELSE sample)]

\* what the new peer is told: everybody, or a tracker's sample
Discover(s, n, sample) ==
    IF settings.use_global_knowledge
    THEN [s EXCEPT !.known_peers =
             [p \in DOMAIN s.known_peers |->
                 IF p \in peers_in_swarm THEN Append(s.known_peers[p], n)
                 ELSE s.known_peers[p]] @@ (n :> SortedList(peers_in_swarm))]
    ELSE [s EXCEPT !.known_peers = (n :> sample) @@ @]

\* the lists peers[0:peers_from_tracker] of a shuffled list(peers_in_swarm)
TrackerSamples ==
    IF settings.use_global_knowledge THEN {<<>>}
    ELSE Prefixes(peers_in_swarm,
                  Min2(settings.peers_from_tracker, Cardinality(peers_in_swarm)))

\* with logging > 1 the tracker's list is printed: the name peers is assigned
\* only without global knowledge, so with it the print raises NameError
\* (UnboundLocalError) before the peer is added to the swarm
add_new_peer(s, n) ==
    UNION {LET s1 == [Discover(s, n, sample) EXCEPT !.retry_peers = (n :> <<>>) @@ @]
           IN  IF settings.logging > 1 /\ settings.use_global_knowledge
               THEN {[s1 EXCEPT !.error = "NameError"]}
               ELSE maybe_connect_more_peers(s1, n)
           : sample \in TrackerSamples}

\* ------------------------------------------ step(): one attempt n -> a
\* LearnDialer with the wrong peer appended
LearnDialer_Self(s, n, a) ==
    IF /\ ~Contains(s.known_peers[a], n)
       /\ ~Contains(s.retry_peers[a], n)
       /\ ~Contains(s.est_connections[a], n)
       /\ ~Contains(s.connection_attempts[a], n)
    THEN [s EXCEPT !.known_peers[a] = Append(@, a)]
    ELSE s

\* a learns about n unless n is in one of a's lists already
LearnDialer(s, n, a) ==
    IF /\ ~Contains(s.known_peers[a], n)
       /\ ~Contains(s.retry_peers[a], n)
       /\ ~Contains(s.est_connections[a], n)
       /\ ~Contains(s.connection_attempts[a], n)
    THEN [s EXCEPT !.known_peers[a] = Append(@, n)]
    ELSE s

\* lowest_rank_connection of a for the dialer n (a has connections)
LowestRankConnection(s, n, a) ==
    IF settings.use_peer_ordering
    THEN s.est_connections[a][FirstMin(s.est_connections[a], n)]
    ELSE s.est_connections[a][1]

\* Branch with the comparison of the two ranks turned around
Branch_RankReversed(s, n, a) ==
    IF Contains(s.est_connections[n], a) THEN "connected"
    ELSE IF Len(s.est_connections[a]) < settings.max_peers THEN "accept"
    ELSE IF /\ settings.use_peer_ordering
            /\ prio(n, a) < prio(LowestRankConnection(s, n, a), a) THEN "replace"
    ELSE "reject"

\* the branch of the if/elif chain the attempt takes
Branch(s, n, a) ==
    IF Contains(s.est_connections[n], a) THEN "connected"
    ELSE IF Len(s.est_connections[a]) < settings.max_peers THEN "accept"
    ELSE IF /\ settings.use_peer_ordering
            /\ prio(LowestRankConnection(s, n, a), a) < prio(n, a) THEN "replace"
    ELSE "reject"

\* est_connections[a].append(n); est_connections[n].append(a)
Establish(s, n, a) ==
    [s EXCEPT !.est_connections =
        [[@ EXCEPT ![a] = Append(@, n)] EXCEPT ![n] = Append(@, a)]]

\* Evict that leaves e in est_connections[a]
Evict_OneSided(s, e, a) ==
    LET s1 == [s EXCEPT !.est_connections[e] = Remove(@, a)]
        s3 == [s1 EXCEPT !.known_peers[a] = Append(@, e)]
    IN  [s3 EXCEPT !.known_peers[e] = Append(@, a)]

\* Evict that does not tell e about a again
Evict_NoRelearn(s, e, a) ==
    LET s1 == [s EXCEPT !.est_connections[e] = Remove(@, a)]
        s2 == [s1 EXCEPT !.est_connections[a] = Remove(@, e)]
    IN  [s2 EXCEPT !.known_peers[a] = Append(@, e)]

\* the connection e - a is dropped and both learn about each other again;
\* list.remove raises ValueError when the entry is not there
Evict(s, e, a) ==
    IF ~Contains(s.est_connections[e], a) THEN [s EXCEPT !.error = "ValueError"]
    ELSE LET s1 == [s EXCEPT !.est_connections[e] = Remove(@, a)]
         IN  IF ~Contains(s1.est_connections[a], e)
             THEN [s1 EXCEPT !.error = "ValueError"]
             ELSE LET s2 == [s1 EXCEPT !.est_connections[a] = Remove(@, e)]
                      s3 == [s2 EXCEPT !.known_peers[a] = Append(@, e)]
                  IN  [s3 EXCEPT !.known_peers[e] = Append(@, a)]

\* by replacing a lower ranking connection
Replace(s, n, a) ==
    LET s1 == Evict(s, LowestRankConnection(s, n, a), a)
    IN  IF s1.error # "none" THEN s1
        ELSE [Establish(s1, n, a) EXCEPT !.replacements_per_tick[tick + 1] = @ + 1]

\* connection attempt rejected
Reject(s, n, a) ==
    [s EXCEPT !.rejects_per_tick[tick + 1] = @ + 1,
              !.retry_peers[n] = Append(@, a)]

\* if established: the two drop each other from their known peers
Forget(s, n, a) ==
    LET s1 == [s EXCEPT !.known_peers[a] = RemoveIfPresent(@, n)]
    IN  [s1 EXCEPT !.known_peers[n] = RemoveIfPresent(@, a)]

\* ResolveAttempt that leaves the attempt in connection_attempts[n]
ResolveAttempt_KeepAttempt(s, n, a) ==
    LET s0 == [s EXCEPT !.est_connections = Ensure(Ensure(@, a), n)]
        s1 == LearnDialer(s0, n, a)
        b  == Branch(s1, n, a)
        s2 == CASE b = "connected" -> s1
                [] b = "accept" -> Establish(s1, n, a)
                [] b = "replace" -> Replace(s1, n, a)
                [] OTHER -> Reject(s1, n, a)
    IN  IF b # "reject" THEN Forget(s2, n, a) ELSE s2

\* the body of the inner for-loop of step(): n is trying to connect to a
ResolveAttempt(s, n, a) ==
    LET s0 == [s EXCEPT !.est_connections = Ensure(Ensure(@, a), n)]
        s1 == LearnDialer(s0, n, a)
        b  == Branch(s1, n, a)
        s2 == CASE b = "connected" -> s1
                [] b = "accept" -> Establish(s1, n, a)
                [] b = "replace" -> Replace(s1, n, a)
                [] OTHER -> Reject(s1, n, a)
        s3 == IF b # "reject" THEN Forget(s2, n, a) ELSE s2
    IN  IF s2.error # "none" THEN s2
        ELSE [s3 EXCEPT !.connection_attempts[n] = Remove(@, a)]

\* the inner for-loop of step() for the peer n: its attempts, in the given order
RECURSIVE ResolveAttemptsOf(_, _, _)
ResolveAttemptsOf(s, n, attempts) ==
    IF attempts = <<>> THEN s
    ELSE ResolveAttemptsOf(ResolveAttempt(s, n, Head(attempts)), n, Tail(attempts))

\* the first loop of step() without the sampling: the peers in the given order,
\* each with its list(connection_attempts[n])
RECURSIVE ResolvePeers(_, _)
ResolvePeers(s, order) ==
    IF order = <<>> THEN s
    ELSE ResolvePeers(ResolveAttemptsOf(s, Head(order), s.connection_attempts[Head(order)]),
                      Tail(order))

\* what the attempt did, for the record
Outcome(s, n, a) ==
    LET s1 == LearnDialer([s EXCEPT !.est_connections = Ensure(Ensure(@, a), n)], n, a)
        b  == Branch(s1, n, a)
    IN  [kind |-> b, n |-> n, a |-> a,
         evicted |-> IF b = "replace" THEN LowestRankConnection(s1, n, a) ELSE -1]

NoAttempt == [kind |-> "none", n |-> -1, a |-> -1, evicted |-> -1]

\* track ramp-up time for peers
TrackRampUpOf(n) ==
    IF n >= settings.max_peers
    THEN LET node_time == tick - join_time[n]
             padded == startup \o [i \in 1..(node_time + 1 - Len(startup)) |-> <<>>]
         IN  [padded EXCEPT ![node_time + 1] = Append(@, Len(est_connections[n]))]
    ELSE startup

\* ------------------------------------------------- graph_diameter
\* the breadth first flood fill from one node: cur_dist when the queue runs dry
RECURSIVE Flood(_, _, _, _)
Flood(conns, queue, distances, cur_dist) ==
    LET marked == distances \cup queue
        adjacent == {adj \in UNION {Range(conns[c]) : c \in queue} : adj \notin marked}
    IN  IF adjacent = {} THEN cur_dist + 1
        ELSE Flood(conns, adjacent, marked, cur_dist + 1)

\* MaxOver that keeps the last node's distance, not the greatest
RECURSIVE MaxOver_Last(_, _, _)
MaxOver_Last(conns, nodes, ret) ==
    IF nodes = {} THEN ret
    ELSE LET n == CHOOSE x \in nodes : TRUE
         IN  MaxOver_Last(conns, nodes \ {n}, Flood(conns, {n}, {}, 0) - 1)

RECURSIVE MaxOver(_, _, _)
MaxOver(conns, nodes, ret) ==
    IF nodes = {} THEN ret
    ELSE LET n == CHOOSE x \in nodes : TRUE
         IN  MaxOver(conns, nodes \ {n}, Max2(ret, Flood(conns, {n}, {}, 0) - 1))

\* graph_diameter counting the nodes of the longest path, not its hops
graph_diameter_Nodes(conns) == MaxOver(conns, DOMAIN conns, 0) + 1

graph_diameter(conns) == MaxOver(conns, DOMAIN conns, 0)

\* ------------------------------------------------------- the actions
Store(s) ==
    /\ est_connections' = s.est_connections
    /\ connection_attempts' = s.connection_attempts
    /\ known_peers' = s.known_peers
    /\ retry_peers' = s.retry_peers
    /\ attempts_per_tick' = s.attempts_per_tick
    /\ rejects_per_tick' = s.rejects_per_tick
    /\ replacements_per_tick' = s.replacements_per_tick
    /\ error' = s.error

Running == error = "none"

\* step() starts: the three counters of the tick, then the first peer's attempts
StepBegin ==
    /\ Running /\ pc = "step"
    /\ rejects_per_tick' = Append(rejects_per_tick, 0)
    /\ replacements_per_tick' = Append(replacements_per_tick, 0)
    /\ attempts_per_tick' = Append(attempts_per_tick, 0)
    /\ IF peers_in_swarm = {}
       THEN pc' = "join" /\ todo' = <<>>
       ELSE pc' = "resolve" /\ todo' = connection_attempts[0]
    /\ cur' = 0
    /\ last' = NoAttempt
    /\ UNCHANGED <<settings, tick, peers_in_swarm, est_connections, connection_attempts,
                   known_peers, retry_peers, join_time, startup, diameter, sha1, error,
                   prio_args, prio_hashed>>

\* resolve one connection attempt of the peer cur
Resolve ==
    /\ Running /\ pc = "resolve" /\ todo # <<>>
    /\ Store(ResolveAttempt(Tables, cur, Head(todo)))
    /\ last' = Outcome(Tables, cur, Head(todo))
    /\ todo' = Tail(todo)
    /\ UNCHANGED <<settings, tick, peers_in_swarm, join_time, startup, diameter, sha1,
                   pc, cur, prio_args, prio_hashed>>

\* the attempts of cur are through: its ramp-up sample, then the next peer
TrackRampUp ==
    /\ Running /\ pc = "resolve" /\ todo = <<>>
    /\ startup' = TrackRampUpOf(cur)
    /\ IF cur + 1 \in peers_in_swarm
       THEN pc' = "resolve" /\ cur' = cur + 1 /\ todo' = connection_attempts[cur + 1]
       ELSE pc' = "connect" /\ cur' = 0 /\ todo' = <<>>
    /\ last' = NoAttempt
    /\ UNCHANGED <<settings, tick, peers_in_swarm, est_connections, connection_attempts,
                   known_peers, retry_peers, attempts_per_tick, rejects_per_tick,
                   replacements_per_tick, join_time, diameter, sha1, error,
                   prio_args, prio_hashed>>

\* the second loop of step(): maybe_connect_more_peers(cur)
ConnectMore ==
    /\ Running /\ pc = "connect"
    /\ \E s \in maybe_connect_more_peers(Tables, cur) : Store(s)
    /\ IF cur + 1 \in peers_in_swarm
       THEN pc' = "connect" /\ cur' = cur + 1
       ELSE pc' = "join" /\ cur' = 0
    /\ last' = NoAttempt
    /\ UNCHANGED <<settings, tick, peers_in_swarm, join_time, startup, diameter, sha1,
                   todo, prio_args, prio_hashed>>

\* add a new peer every other tick
JoinDue ==
    /\ Cardinality(peers_in_swarm) < settings.swarm_size
    /\ tick % 2 = 0

AddNewPeer ==
    /\ Running /\ pc = "join" /\ JoinDue
    /\ LET n == Cardinality(peers_in_swarm)
       IN  \E s \in add_new_peer(Tables, n) :
               /\ Store(s)
               /\ IF s.error = "none"
                  THEN /\ peers_in_swarm' = peers_in_swarm \cup {n}
                       /\ join_time' = join_time @@ (n :> tick)
                  ELSE UNCHANGED <<peers_in_swarm, join_time>>
    /\ pc' = "render"
    /\ last' = NoAttempt
    /\ UNCHANGED <<settings, tick, startup, diameter, sha1, cur, todo,
                   prio_args, prio_hashed>>

\* render(): the diameter of the tick; then tick += 1 and the next turn
Render ==
    /\ Running
    /\ IF pc = "join" THEN ~JoinDue ELSE pc = "render"
    /\ diameter' = Append(diameter, graph_diameter(est_connections))
    /\ tick' = tick + 1
    /\ pc' = IF tick + 1 < settings.swarm_size * 3 THEN "step" ELSE "done"
    /\ last' = NoAttempt
    /\ UNCHANGED <<settings, peers_in_swarm, est_connections, connection_attempts,
                   known_peers, retry_peers, attempts_per_tick, rejects_per_tick,
                   replacements_per_tick, join_time, startup, sha1, cur, todo, error,
                   prio_args, prio_hashed>>

\* ------------------------------------------------- the specification
\* the command lines explored; --peers-from-tracker is read only without
\* global knowledge; --logging is left at its default, 0
Configs ==
    {c \in [max_peers : 1..MaxMaxPeers, swarm_size : {MaxSwarm},
            peers_from_tracker : 1..MaxTracker, half_open_limit : 1..MaxHalfOpen,
            use_peer_ordering : BOOLEAN, use_global_knowledge : BOOLEAN,
            logging : {0}] :
        c.use_global_knowledge => c.peers_from_tracker = MaxTracker}

\* prio is called only with peer ordering
HashOrders(c) ==
    {HashOrder(c.swarm_size, seed) :
        seed \in IF c.use_peer_ordering THEN 0..(NumHashOrders - 1) ELSE {0}}

InitSwarm ==
    /\ tick = 0
    /\ peers_in_swarm = {}
    /\ est_connections = <<>>
    /\ connection_attempts = <<>>
    /\ known_peers = <<>>
    /\ retry_peers = <<>>
    /\ attempts_per_tick = <<>>
    /\ rejects_per_tick = <<>>
    /\ replacements_per_tick = <<>>
    /\ join_time = <<>>
    /\ startup = <<>>
    /\ diameter = <<>>
    /\ pc = "step"
    /\ cur = 0
    /\ todo = <<>>
    /\ last = NoAttempt
    /\ error = "none"

Init ==
    /\ settings \in Configs
    /\ sha1 \in HashOrders(settings)
    /\ InitSwarm
    /\ prio_args = <<0, 0>>
    /\ prio_hashed = <<>>

Next ==
    \/ StepBegin
    \/ Resolve
    \/ TrackRampUp
    \/ ConnectMore
    \/ AddNewPeer
    \/ Render

Spec == Init /\ [][Next]_vars

\* the full mesh runs: --swarm-size 5 --max-peers 4 with global knowledge.  No
\* peer of these runs is ever full for a peer it is not connected to, so the
\* digest order decides only which known peer is dialed first: the runs
\* without peer ordering, which dial any known peer, cover every digest order
MeshConfigs ==
    [max_peers : {4}, swarm_size : {5}, peers_from_tracker : {MaxTracker},
     half_open_limit : 1..MaxHalfOpen, use_peer_ordering : BOOLEAN,
     use_global_knowledge : {TRUE}, logging : {0}]

MeshInit ==
    /\ settings \in MeshConfigs
    /\ sha1 \in HashOrders(settings)
    /\ InitSwarm
    /\ prio_args = <<0, 0>>
    /\ prio_hashed = <<>>

\* the main loop is one thread that runs to its last tick: it never stops
\* while a step is left to take
MeshSpec == MeshInit /\ [][Next]_vars /\ WF_vars(Next)

\* prio on its own: it is handed two distinct peer ids and hashes their string
PrioInit ==
    /\ prio_args \in {q \in (0..MaxId) \X (0..MaxId) : q[1] # q[2]}
    /\ prio_hashed = <<>>
    /\ settings \in {c \in Configs : c.use_global_knowledge /\ ~c.use_peer_ordering
                                     /\ c.max_peers = 1 /\ c.half_open_limit = 1}
    /\ sha1 = <<>>
    /\ InitSwarm

PrioCall ==
    /\ prio_hashed = <<>>
    /\ prio_hashed' = PrioKey(prio_args[1], prio_args[2])
    /\ UNCHANGED <<prio_args, swarmVars>>

PrioSpec == PrioInit /\ [][PrioCall]_vars

\* the runs with every logging level (--logging 0, 1, 2: the code tells them
\* apart by > 0 and > 1), under one digest order
LoggingConfigs ==
    [max_peers : 1..MaxMaxPeers, swarm_size : {MaxSwarm},
     peers_from_tracker : {MaxTracker}, half_open_limit : {MaxHalfOpen},
     use_peer_ordering : BOOLEAN, use_global_knowledge : BOOLEAN,
     logging : 0..2]

LoggingInit ==
    /\ settings \in LoggingConfigs
    /\ sha1 = HashOrder(settings.swarm_size, 0)
    /\ InitSwarm
    /\ prio_args = <<0, 0>>
    /\ prio_hashed = <<>>

LoggingSpec == LoggingInit /\ [][Next]_vars

\* graph_diameter on its own: it is handed the connection lists of a graph (a
\* symmetric relation without self loops, as est_connections is) of up to
\* MaxNodes peers, and render() records what it returns
Graphs ==
    UNION {{[x \in 0..(k - 1) |-> SortedList({y \in 0..(k - 1) : y # x /\ {x, y} \in E})] :
               E \in SUBSET {e \in SUBSET (0..(k - 1)) : Cardinality(e) = 2}} :
           k \in 1..MaxNodes}

DiameterInit ==
    /\ est_connections \in Graphs
    /\ diameter = <<>>
    /\ settings \in {c \in Configs : c.use_global_knowledge /\ ~c.use_peer_ordering
                                     /\ c.max_peers = 1 /\ c.half_open_limit = 1}
    /\ sha1 = <<>>
    /\ tick = 0
    /\ peers_in_swarm = DOMAIN est_connections
    /\ connection_attempts = <<>>
    /\ known_peers = <<>>
    /\ retry_peers = <<>>
    /\ attempts_per_tick = <<>>
    /\ rejects_per_tick = <<>>
    /\ replacements_per_tick = <<>>
    /\ join_time = <<>>
    /\ startup = <<>>
    /\ pc = "render"
    /\ cur = 0
    /\ todo = <<>>
    /\ last = NoAttempt
    /\ error = "none"
    /\ prio_args = <<0, 0>>
    /\ prio_hashed = <<>>

DiameterCall ==
    /\ diameter = <<>>
    /\ diameter' = Append(diameter, graph_diameter(est_connections))
    /\ UNCHANGED <<settings, tick, peers_in_swarm, est_connections, connection_attempts,
                   known_peers, retry_peers, attempts_per_tick, rejects_per_tick,
                   replacements_per_tick, join_time, startup, sha1, pc, cur, todo,
                   last, error, prio_args, prio_hashed>>

DiameterSpec == DiameterInit /\ [][DiameterCall]_vars

\* ------------------------------------------------------- the claims
HasDuplicates(seq) == Cardinality(Range(seq)) < Len(seq)

\* C1: every peer has at most max_peers established connections, in every
\* state the run reaches.
DegreeBound ==
    \A n \in DOMAIN est_connections : Len(est_connections[n]) <= settings.max_peers

\* C2: the established relation is symmetric in every reachable state: a is in
\* est_connections[b] exactly when b is in est_connections[a].
EstablishedSymmetric ==
    \A a \in DOMAIN est_connections : \A b \in DOMAIN est_connections :
        Contains(est_connections[a], b) <=> Contains(est_connections[b], a)

\* a preemption has just been resolved: one connection dropped, one made
EstablishedSymmetricWitness ==
    /\ last.kind = "replace"
    /\ Contains(est_connections[last.n], last.a)
    /\ Contains(est_connections[last.a], last.n)
    /\ ~Contains(est_connections[last.a], last.evicted)
    /\ \E n \in peers_in_swarm : Len(est_connections[n]) >= 2

\* C3: an established connection e - a goes away only in the step that resolves
\* an attempt n -> a with peer ordering enabled and prio(e, a) < prio(n, a),
\* the step that counts one replacement and connects n and a; without peer
\* ordering no connection ever goes away and every replacements_per_tick is 0.
ReplacementOnlyByRank ==
    /\ [][\A e \in peers_in_swarm : \A a \in peers_in_swarm :
            (Contains(est_connections[a], e) /\ ~Contains(est_connections'[a], e))
            => /\ settings.use_peer_ordering
               /\ pc = "resolve" /\ todo # <<>>
               /\ \/ /\ a = Head(todo)
                     /\ prio(e, a) < prio(cur, a)
                     /\ ~Contains(est_connections[a], cur)
                     /\ Contains(est_connections'[a], cur)
                  \/ /\ e = Head(todo)
                     /\ prio(a, e) < prio(cur, e)
                     /\ ~Contains(est_connections[e], cur)
                     /\ Contains(est_connections'[e], cur)
               /\ replacements_per_tick'[tick + 1] = replacements_per_tick[tick + 1] + 1
         ]_vars
    /\ [][(replacements_per_tick' # replacements_per_tick /\ pc = "resolve")
            => \E e \in peers_in_swarm :
                  /\ Contains(est_connections[Head(todo)], e)
                  /\ ~Contains(est_connections'[Head(todo)], e)
         ]_vars
    /\ [](~settings.use_peer_ordering
            => \A i \in DOMAIN replacements_per_tick : replacements_per_tick[i] = 0)

\* a replacement has been counted and the evicted peer ranked lower
ReplacementOnlyByRankWitness ==
    /\ last.kind = "replace"
    /\ prio(last.evicted, last.a) < prio(last.n, last.a)
    /\ replacements_per_tick[tick + 1] >= 1

\* C4: retry_peers[n] never holds a peer twice, and no peer is in both
\* known_peers[n] and retry_peers[n].
RetryConservation ==
    \A n \in DOMAIN retry_peers :
        /\ ~HasDuplicates(retry_peers[n])
        /\ Range(retry_peers[n]) \cap Range(known_peers[n]) = {}

\* C5: in the step in which a stops being connected to e (a preemption), the
\* connection is gone on both sides, e is in known_peers[a] and a is in
\* known_peers[e].
EvictionRoundTrip ==
    [][\A e \in peers_in_swarm : \A a \in peers_in_swarm :
         (Contains(est_connections[a], e) /\ ~Contains(est_connections'[a], e)
             /\ error' = "none")
         => /\ ~Contains(est_connections'[e], a)
            /\ Contains(known_peers'[a], e)
            /\ Contains(known_peers'[e], a)
      ]_vars

\* the evicted peer and the peer that dropped it know each other again
EvictionRoundTripWitness ==
    /\ last.kind = "replace"
    /\ ~Contains(est_connections[last.a], last.evicted)
    /\ Contains(known_peers[last.a], last.evicted)
    /\ Contains(known_peers[last.evicted], last.a)

\* C6: every peer has at most half_open_limit outstanding attempts.
HalfOpenBound ==
    \A n \in DOMAIN connection_attempts :
        Len(connection_attempts[n]) <= settings.half_open_limit

\* a peer has as many attempts as the limit allows while its known peers, one
\* of them listed twice, would give it more
HalfOpenBoundWitness ==
    \E n \in peers_in_swarm :
        /\ Len(connection_attempts[n]) = settings.half_open_limit
        /\ HasDuplicates(known_peers[n])

\* C7: no peer is in its own established, attempt, known or retry list.
NoSelfLoops ==
    \A n \in peers_in_swarm :
        /\ ~Contains(est_connections[n], n)
        /\ ~Contains(connection_attempts[n], n)
        /\ ~Contains(known_peers[n], n)
        /\ ~Contains(retry_peers[n], n)

\* the run is over: all peers joined, were dialed, evicted and rejected
NoSelfLoopsWitness ==
    /\ pc = "done"
    /\ peers_in_swarm = 0..(settings.swarm_size - 1)
    /\ \E i \in DOMAIN replacements_per_tick : replacements_per_tick[i] > 0
    /\ \E i \in DOMAIN rejects_per_tick : rejects_per_tick[i] > 0
    /\ ~settings.use_global_knowledge

\* C8: with swarm_size 5, max_peers 4, peer ordering and global knowledge, the
\* run reaches, and from then on stays in, states where every peer is connected
\* to the 4 others and graph_diameter gives 1; the last diameter recorded is 1.
\* (No attempt of these runs is rejected or replaces a connection.)
MeshComplete ==
    /\ peers_in_swarm = 0..4
    /\ \A a \in peers_in_swarm :
           /\ Len(est_connections[a]) = 4
           /\ Range(est_connections[a]) = peers_in_swarm \ {a}

FullMeshConverges ==
    /\ <>[](MeshComplete /\ graph_diameter(est_connections) = 1)
    /\ [](pc = "done" => diameter[Len(diameter)] = 1)
    /\ [](last.kind \notin {"reject", "replace"})

\* the run with peer ordering has ended in the full mesh
FullMeshConvergesWitness ==
    /\ settings.use_peer_ordering
    /\ pc = "done" /\ tick = 15
    /\ MeshComplete
    /\ diameter[Len(diameter)] = 1

\* C9: two distinct unordered pairs of peer ids are never hashed as the same
\* string: the string prio hashed for its arguments is hashed for no other pair.
PrioCollisionFree ==
    prio_hashed # <<>> =>
        \A c \in 0..MaxId : \A d \in (c + 1)..MaxId :
            {c, d} # {prio_args[1], prio_args[2]} => PrioKey(c, d) # prio_hashed

\* C10: after every tick, known_peers[n] holds no peer that n is connected to
\* or is dialing.
KnownDisjoint ==
    pc = "step" =>
        \A n \in peers_in_swarm :
            /\ Range(known_peers[n]) \cap Range(est_connections[n]) = {}
            /\ Range(known_peers[n]) \cap Range(connection_attempts[n]) = {}

\* C11: right after an attempt n -> a has ended with the connection established
\* (accepted, or accepted by replacing a connection), n is in neither
\* known_peers[a] nor retry_peers[a] and a is in neither known_peers[n] nor
\* retry_peers[n].
ForgetOnEstablish ==
    last.kind \in {"accept", "replace"} =>
        /\ ~Contains(known_peers[last.a], last.n)
        /\ ~Contains(retry_peers[last.a], last.n)
        /\ ~Contains(known_peers[last.n], last.a)
        /\ ~Contains(retry_peers[last.n], last.a)

\* the member of est_connections[a] whose connection with a ranks lowest
WeakestOf(a) ==
    CHOOSE c \in Range(est_connections[a]) :
        \A d \in Range(est_connections[a]) : prio(a, c) <= prio(a, d)

\* C12: with peer ordering, when the attempt n -> a finds a full and n not
\* connected to a, n is connected to a after the attempt exactly when prio(n, a)
\* is greater than the rank of a's weakest connection (the c of
\* est_connections[a] with the least prio(a, c)), and then it is that
\* connection that a has dropped.
WeakestIsReplaced ==
    [][(/\ pc = "resolve" /\ todo # <<>>
        /\ settings.use_peer_ordering
        /\ Len(est_connections[Head(todo)]) >= settings.max_peers
        /\ ~Contains(est_connections[cur], Head(todo)))
       => LET a == Head(todo)
              c == WeakestOf(a)
          IN  /\ Contains(est_connections'[a], cur) <=> prio(a, c) < prio(cur, a)
              /\ Contains(est_connections'[a], cur) => ~Contains(est_connections'[a], c)
      ]_vars

\* seq is the list longer without its last how-many members
IsProperPrefix(seq, longer) ==
    Len(seq) < Len(longer) /\ SubSeq(longer, 1, Len(seq)) = seq

\* C13: the attempts a peer has when step() reaches it are resolved one by one,
\* in the list's order, and each is removed as it is resolved; no attempt is
\* left when the second loop (the scheduling) begins; attempts are removed only
\* by the resolution of the dialer's own turn, and added only at the end of the
\* dialer's list by the scheduling of that peer, so an attempt made in a tick
\* (by the scheduling or by add_new_peer) is outstanding until the next tick's
\* resolution.
AttemptPhases ==
    /\ [](pc = "resolve" => connection_attempts[cur] = todo)
    /\ [](pc = "connect" /\ cur = 0 =>
            \A n \in peers_in_swarm : connection_attempts[n] = <<>>)
    /\ [][\A n \in peers_in_swarm :
            connection_attempts'[n] # connection_attempts[n] =>
                IF pc = "resolve"
                THEN n = cur /\ todo # <<>>
                     /\ connection_attempts'[n] = Tail(connection_attempts[n])
                ELSE pc = "connect" /\ n = cur
                     /\ IsProperPrefix(connection_attempts[n], connection_attempts'[n])
         ]_vars

\* the scheduling of a tick begins: the attempts made in the tick before are
\* all resolved and gone
AttemptPhasesWitness ==
    /\ pc = "connect" /\ cur = 0
    /\ tick >= 1 /\ attempts_per_tick[tick] >= 2
    /\ Cardinality(peers_in_swarm) >= 3
    /\ \A n \in peers_in_swarm : connection_attempts[n] = <<>>

\* C14: when the attempts of every peer have been resolved in a tick, the
\* sample recorded in that tick for a peer n >= max_peers (the last of bucket
\* tick - join_time[n]; no two peers joined in the same tick) is the number of
\* connections n has now.
StartupSampleAfterResolution ==
    (pc = "connect" /\ cur = 0) =>
        \A n \in peers_in_swarm :
            n >= settings.max_peers =>
                LET bucket == startup[tick - join_time[n] + 1]
                IN  bucket[Len(bucket)] = Len(est_connections[n])

\* C15: wherever step() calls maybe_connect_more_peers(n), a second call right
\* after the first changes nothing: whatever tables the first call ends with,
\* the second call ends with the same.
ConnectMoreIdempotent ==
    pc = "connect" =>
        \A s \in maybe_connect_more_peers(Tables, cur) :
            maybe_connect_more_peers(s, cur) = {s}

Occurrences(seq, x) == Cardinality({i \in DOMAIN seq : seq[i] = x})

\* C16: while a is in retry_peers[n] (n's dial to a was rejected and the retry
\* list has not been swapped since), n makes an attempt to a only in a call of
\* maybe_connect_more_peers(n) that finds known_peers[n] empty and swaps the
\* retry list into it.
RetryOnlyBySwap ==
    [][\A n \in peers_in_swarm : \A a \in Range(retry_peers[n]) :
         Occurrences(connection_attempts'[n], a) > Occurrences(connection_attempts[n], a)
         => /\ pc = "connect" /\ n = cur
            /\ known_peers[n] = <<>>
            /\ ~Contains(retry_peers'[n], a)
      ]_vars

\* n is in one of the four lists of p
InListsOf(known, retry, attempts, est, p, n) ==
    \/ Contains(known[p], n)
    \/ Contains(retry[p], n)
    \/ Contains(attempts[p], n)
    \/ Contains(est[p], n)

\* C17: without global knowledge, the step in which a peer joins leaves the four
\* lists of every peer already in the swarm as they are, and a peer n that
\* joined after p comes to be in one of p's lists only in the step that resolves
\* an attempt n -> p.
NoRetroactiveNotification ==
    [][~settings.use_global_knowledge =>
         /\ peers_in_swarm' # peers_in_swarm =>
                \A p \in peers_in_swarm :
                    /\ known_peers'[p] = known_peers[p]
                    /\ retry_peers'[p] = retry_peers[p]
                    /\ connection_attempts'[p] = connection_attempts[p]
                    /\ est_connections'[p] = est_connections[p]
         /\ \A p \in peers_in_swarm : \A n \in (p + 1)..(settings.swarm_size - 1) :
                (/\ ~InListsOf(known_peers, retry_peers, connection_attempts,
                               est_connections, p, n)
                 /\ InListsOf(known_peers', retry_peers', connection_attempts',
                              est_connections', p, n))
                => pc = "resolve" /\ todo # <<>> /\ cur = n /\ Head(todo) = p
      ]_vars

\* an older peer has just learned about a younger one by being dialed by it,
\* and two peers have joined since the older one did
NoRetroactiveNotificationWitness ==
    /\ ~settings.use_global_knowledge
    /\ last.kind \in {"accept", "reject"}
    /\ last.a + 2 <= last.n
    /\ InListsOf(known_peers, retry_peers, connection_attempts, est_connections,
                 last.a, last.n)
    /\ \E m \in peers_in_swarm : m > last.a /\ m # last.n
          /\ ~InListsOf(known_peers, retry_peers, connection_attempts, est_connections,
                        last.a, m)

\* every list of the members of S, each once
RECURSIVE Orderings(_)
Orderings(S) ==
    IF S = {} THEN {<<>>}
    ELSE UNION {{<<x>> \o q : q \in Orderings(S \ {x})} : x \in S}

\* the list in every order
Reorderings(list) ==
    {[i \in DOMAIN list |-> list[q[i]]] : q \in Orderings(DOMAIN list)}

\* the tables the resolution can end with when the peers are taken in the given
\* order and every peer's attempts in any order
RECURSIVE ResolveAnyOrder(_, _)
ResolveAnyOrder(s, order) ==
    IF order = <<>> THEN {s}
    ELSE UNION {ResolveAnyOrder(ResolveAttemptsOf(s, Head(order), attempts), Tail(order)) :
                    attempts \in Reorderings(s.connection_attempts[Head(order)])}

\* the established connections as a set of unordered pairs
Edges(est) == UNION {{{x, y} : y \in Range(est[x])} : x \in DOMAIN est}

\* C18: with peer ordering, from the state a tick's resolution starts in, the
\* established connections after the resolution of all outstanding attempts are
\* the same whatever the order of the peers and of each peer's attempts.
ResolutionOrderIndependent ==
    (pc = "resolve" /\ cur = 0 /\ last.kind = "none" /\ settings.use_peer_ordering) =>
        \A order \in Orderings(peers_in_swarm) :
            \A s \in ResolveAnyOrder(Tables, order) :
                Edges(s.est_connections) =
                    Edges(ResolvePeers(Tables, SortedList(peers_in_swarm)).est_connections)

\* the peers within d hops of x
RECURSIVE Within(_, _, _)
Within(conns, x, d) ==
    IF d = 0 THEN {x}
    ELSE LET near == Within(conns, x, d - 1)
         IN  near \cup UNION {Range(conns[y]) : y \in near}

\* the hops of a shortest path from x to y (y can be reached from x)
Distance(conns, x, y) ==
    CHOOSE d \in 0..Cardinality(DOMAIN conns) :
        /\ y \in Within(conns, x, d)
        /\ \A e \in 0..(d - 1) : y \notin Within(conns, x, e)

\* the greatest distance between two peers one of which can be reached from the other
GreatestDistance(conns) ==
    LET far == UNION {{Distance(conns, x, y) :
                          y \in Within(conns, x, Cardinality(DOMAIN conns))} :
                      x \in DOMAIN conns}
    IN  CHOOSE d \in far : \A e \in far : e <= d

\* C19: for every graph of up to MaxNodes peers, connected or not, what
\* graph_diameter returns is the greatest, over all peers, of the hops of a
\* shortest path to a peer that can be reached; it is 0 when there is no edge.
DiameterIsGreatestDistance ==
    diameter # <<>> =>
        /\ diameter[1] = GreatestDistance(est_connections)
        /\ (\A x \in DOMAIN est_connections : est_connections[x] = <<>>) => diameter[1] = 0

\* a graph that is not connected, with an isolated peer and a path of 3 hops
DiameterIsGreatestDistanceWitness ==
    /\ diameter = <<3>>
    /\ \E x \in DOMAIN est_connections : est_connections[x] = <<>>
    /\ \E x \in DOMAIN est_connections : Len(est_connections[x]) = 2

\* C20: step() and add_new_peer() raise no error, under every setting of
\* use_global_knowledge and use_peer_ordering and every logging level.
NoError == error = "none"

====
